---- MODULE Spec2Model ----
(***************************************************************************)
(* A model of pkg/cluster/cluster.go: the cluster lifecycle orchestrator.  *)
(*                                                                         *)
(* Strings are sequences of atoms (one atom per character or per fixed     *)
(* piece of text), so that formatting is computed and two strings are      *)
(* equal exactly when their atom sequences are.                            *)
(***************************************************************************)
EXTENDS Integers, Sequences, FiniteSets, TLC

VARIABLES
    spec,        \* Cluster.spec: the declared configuration (config.Config)
    containers,  \* the backend: container name -> its state
    op,          \* the fleet operation called last: Create, Start, Stop, Delete
    running,     \* whether that operation is still inside forEachMachine
    cursor,      \* forEachMachine: number of per-machine actions invoked so far
    calls,       \* external steps issued by the last per-machine action, in order
    err,         \* error returned by the last per-machine action (NoErr if none)
    ret,         \* what the fleet operation returned (Pending while it runs)
    hostnameArg, \* machineFromHostname: the hostname looked up last
    machineRes,  \* machineFromHostname: what the lookup returned
    made,        \* Cluster.machine: the instance built last
    sshpc,       \* Cluster.SSH: "idle", "loop" (inside the retry loop) or "done"
    sshArgs,     \* Cluster.SSH: the port, user and remote given to ssh
    retries,     \* Cluster.SSH: the local retries
    retry,       \* Cluster.SSH: the local retry, ssh's first result
    sshErr,      \* Cluster.SSH: the local err, ssh's second result
    sshRet,      \* Cluster.SSH: what the call returned
    attempts,    \* number of ssh processes started by this call of Cluster.SSH
    transients,  \* how many of them failed after writing the refusal signature
    writes,      \* what the last ssh process wrote to its standard error
    exit,        \* the exit status of the last ssh process (NoErr for success)
    filters,     \* the two matchFilters of the last attempt, after it
    stderr,      \* what the last attempt wrote through to os.Stderr
    runArgs,     \* createMachineRunArgs: the arguments computed last
    runInst,     \* createMachineRunArgs: the (template, index) they were computed for
    inspects,    \* the backend: container name -> what docker inspect reports for it
    gop,         \* the inspection operation called last: Show or Inspect
    gathered,    \* gatherMachines: the machines it returned to that operation
    gatherRet,   \* what Show or Inspect returned
    inspected    \* Inspect: the position in gathered of the machine it displayed

lifeVars == <<containers, op, running, cursor, calls, err, ret>>
nameVars == <<hostnameArg, machineRes, made>>
sshVars == <<sshpc, sshArgs, retries, retry, sshErr, sshRet, attempts, transients,
             writes, exit, filters, stderr>>

argVars == <<runArgs, runInst>>

gatherVars == <<inspects, gop, gathered, gatherRet, inspected>>

vars == <<spec, lifeVars, nameVars, sshVars, argVars, gatherVars>>

-----------------------------------------------------------------------------
(* Bounds of the model.                                                    *)

MaxTemplates == 2    \* templates in c.spec.Machines
MaxCount == 2        \* replicas of one template
MaxInstances == 3    \* instances of one cluster, all templates together

-----------------------------------------------------------------------------
(* Strings and fmt.Sprintf.                                                *)

\* A Go error is the sequence of atoms of its text; nil is the empty one.
NoErr == <<>>

\* The decimal digits of a natural number, most significant first.
RECURSIVE Dec(_)
Dec(n) == IF n < 10 THEN <<ToString(n)>> ELSE Dec(n \div 10) \o <<ToString(n % 10)>>

IntArg(i) == [type |-> "int", val |-> i]
StrArg(s) == [type |-> "string", val |-> s]

Verbs == {"%d", "%v", "%s"}

\* The verb character of a verb atom, as it appears in fmt's error texts.
VerbChar(verb) == CASE verb = "%d" -> "d" [] verb = "%v" -> "v" [] verb = "%s" -> "s"

\* What one verb prints for one argument (fmt's printArg): %d wants an
\* integer, %s a string, %v takes either; a mismatch prints %!verb(type=value).
FormatArg(verb, arg) ==
    LET text == IF arg.type = "int" THEN Dec(arg.val) ELSE arg.val
        good == \/ verb = "%v"
                \/ verb = "%d" /\ arg.type = "int"
                \/ verb = "%s" /\ arg.type = "string"
    IN  IF good THEN text
        ELSE <<"%!", VerbChar(verb), "(", arg.type, "=">> \o text \o <<")">>

\* The arguments no verb consumed, as fmt lists them: type=value, type=value.
RECURSIVE ExtraArgs(_, _)
ExtraArgs(args, from) ==
    IF from > Len(args) THEN <<>>
    ELSE <<args[from].type, "=">>
         \o (IF args[from].type = "int" THEN Dec(args[from].val) ELSE args[from].val)
         \o (IF from < Len(args) THEN <<", ">> ELSE <<>>)
         \o ExtraArgs(args, from + 1)

\* fmt's doPrintf from position pos of the format, argNum arguments consumed.
RECURSIVE Printf(_, _, _, _)
Printf(format, args, pos, argNum) ==
    IF pos > Len(format)
    THEN IF argNum < Len(args)
         THEN <<"%!(EXTRA ">> \o ExtraArgs(args, argNum + 1) \o <<")">>
         ELSE <<>>
    ELSE IF format[pos] \in Verbs
         THEN IF argNum >= Len(args)
              THEN <<"%!", VerbChar(format[pos]), "(MISSING)">>
                   \o Printf(format, args, pos + 1, argNum)
              ELSE FormatArg(format[pos], args[argNum + 1])
                   \o Printf(format, args, pos + 1, argNum + 1)
         ELSE <<format[pos]>> \o Printf(format, args, pos + 1, argNum)

\* f(format, args...) of the source.
f(format, args) == Printf(format, args, 1, 0)

Digits == {"0", "1", "2", "3", "4", "5", "6", "7", "8", "9"}

DigitValue(d) ==
    CHOOSE v \in 0..9 : ToString(v) = d

IsNumber(str) == Len(str) > 0 /\ \A k \in 1..Len(str) : str[k] \in Digits

\* The number a string of digits writes.
RECURSIVE Number(_, _)
Number(str, k) ==
    IF k = 0 THEN 0 ELSE 10 * Number(str, k - 1) + DigitValue(str[k])

\* strconv.Atoi with its error dropped: the number a string of digits writes
\* and 0 for any other string.
Atoi(str) == IF IsNumber(str) THEN Number(str, Len(str)) ELSE 0

\* strings.Join(elems, sep) from the k-th element on.
RECURSIVE Join(_, _, _)
Join(elems, sep, k) ==
    IF k > Len(elems) THEN <<>>
    ELSE elems[k] \o (IF k < Len(elems) THEN sep ELSE <<>>) \o Join(elems, sep, k + 1)

-----------------------------------------------------------------------------
(* Machine identity.                                                       *)

\* Cluster.containerName: the cluster name, a dash, the template name, all
\* one format string applied to (cluster name, i).
containerName(c, mspec, i) ==
    f(<<"%s", "-">> \o mspec.Name, <<StrArg(c.Cluster.Name), IntArg(i)>>)

\* Cluster.machine: the instance of template t (its position in
\* c.Machines stands for the pointer to its Spec) at index i.
machine(c, t, i) ==
    [spec     |-> t,
     name     |-> containerName(c, c.Machines[t].Spec, i),
     hostname |-> f(c.Machines[t].Spec.Name, <<IntArg(i)>>)]

\* The (template, index) pairs in the order of the nested loops of
\* forEachMachine and gatherMachinesByCluster, from template t on.
RECURSIVE InstancesFrom(_, _)
InstancesFrom(c, t) ==
    IF t > Len(c.Machines) THEN <<>>
    ELSE [k \in 1..c.Machines[t].Count |-> [t |-> t, i |-> k - 1]]
         \o InstancesFrom(c, t + 1)

Instances(c) == InstancesFrom(c, 1)

\* Cluster.machineFromHostname: the first (template, index) in loop order
\* whose formatted name equals the hostname, or the invalid-hostname error.
machineFromHostname(c, hostname) ==
    LET all  == Instances(c)
        hits == {k \in 1..Len(all) :
                    hostname = f(c.Machines[all[k].t].Spec.Name, <<IntArg(all[k].i)>>)}
    IN  IF hits = {} THEN [err |-> hostname \o <<": invalid machine hostname">>]
        ELSE LET k == CHOOSE x \in hits : \A y \in hits : x <= y
             IN  [err |-> NoErr, machine |-> machine(c, all[k].t, all[k].i),
                  t |-> all[k].t, i |-> all[k].i]

-----------------------------------------------------------------------------
(* The backend: one record per container name.                             *)

\* st is the backend's lifecycle state of the name; inited and keyed record
\* whether the first-boot script ran in the container and whether the public
\* key was copied into it.
Absent == [st |-> "absent", inited |-> FALSE, keyed |-> FALSE]

\* Machine.IsRunning: the backend has a container of that name.
IsRunning(cs, name) == cs[name].st /= "absent"

\* Machine.IsStarted: the container's process is executing.
IsStarted(cs, name) == cs[name].st = "started"

\* The error of a failed external command on a container.
BackendErr(prim, name) == <<prim, " failed: ">> \o name

\* What a per-machine action hands back: the backend after it, the
\* primitives it issued in order, and its error.
Outcome(cs, issued, e) == [cs |-> cs, calls |-> issued, err |-> e]

\* createMachine without its IsRunning check: it launches whatever the backend has.
createMachineUnchecked(c, m, i, cs, fault) ==
    LET name     == m.name
        launched == [cs EXCEPT ![name] = [st |-> "started", inited |-> FALSE, keyed |-> FALSE]]
        inited   == [launched EXCEPT ![name].inited = TRUE]
        keyed    == [inited EXCEPT ![name].keyed = TRUE]
    IN  IF fault = "run" THEN Outcome(cs, <<"run">>, BackendErr("run", name))
        ELSE IF fault = "shell"
             THEN Outcome(launched, <<"run", "shell">>, BackendErr("shell", name))
        ELSE Outcome(keyed, <<"run", "shell", "publicKey", "copy">>, NoErr)

\* createMachine that kills and removes the container it launched when a later
\* step fails.
createMachineCleanup(c, m, i, cs, fault) ==
    LET name     == m.name
        launched == [cs EXCEPT ![name] = [st |-> "started", inited |-> FALSE, keyed |-> FALSE]]
        created  == [cs EXCEPT ![name] = [st |-> "stopped", inited |-> FALSE, keyed |-> FALSE]]
        inited   == [launched EXCEPT ![name].inited = TRUE]
        keyed    == [inited EXCEPT ![name].keyed = TRUE]
        removed  == [cs EXCEPT ![name] = Absent]
    IN  IF IsRunning(cs, name) THEN Outcome(cs, <<>>, NoErr)
        ELSE IF fault = "run" THEN Outcome(cs, <<"run">>, BackendErr("run", name))
        ELSE IF fault = "runCreated" THEN Outcome(created, <<"run">>, BackendErr("run", name))
        ELSE IF fault = "shell"
             THEN Outcome(removed, <<"run", "shell", "kill", "rm">>, BackendErr("shell", name))
        ELSE IF fault = "publicKey"
             THEN Outcome(removed, <<"run", "shell", "publicKey", "kill", "rm">>,
                          <<"read public key failed">>)
        ELSE IF fault = "copy"
             THEN Outcome(removed, <<"run", "shell", "publicKey", "copy", "kill", "rm">>,
                          BackendErr("copy", name))
        ELSE Outcome(keyed, <<"run", "shell", "publicKey", "copy">>, NoErr)

\* createMachine that takes up a container an earlier call left without the
\* first-boot script or the key: it starts it and issues the steps it lacks.
createMachineResume(c, m, i, cs, fault) ==
    LET name     == m.name
        launched == [cs EXCEPT ![name] = [st |-> "started", inited |-> FALSE, keyed |-> FALSE]]
        created  == [cs EXCEPT ![name] = [st |-> "stopped", inited |-> FALSE, keyed |-> FALSE]]
        inited   == [launched EXCEPT ![name].inited = TRUE]
        keyed    == [inited EXCEPT ![name].keyed = TRUE]
    IN  IF IsRunning(cs, name)
        THEN IF cs[name] = keyed[name] THEN Outcome(cs, <<>>, NoErr)
             ELSE Outcome(keyed, <<"start", "shell", "publicKey", "copy">>, NoErr)
        ELSE IF fault = "run" THEN Outcome(cs, <<"run">>, BackendErr("run", name))
        ELSE IF fault = "runCreated" THEN Outcome(created, <<"run">>, BackendErr("run", name))
        ELSE IF fault = "shell"
             THEN Outcome(launched, <<"run", "shell">>, BackendErr("shell", name))
        ELSE IF fault = "publicKey"
             THEN Outcome(inited, <<"run", "shell", "publicKey">>, <<"read public key failed">>)
        ELSE IF fault = "copy"
             THEN Outcome(inited, <<"run", "shell", "publicKey", "copy">>, BackendErr("copy", name))
        ELSE Outcome(keyed, <<"run", "shell", "publicKey", "copy">>, NoErr)

\* createMachine. fault names the first external step that fails, if any:
\* "run" (docker run fails, nothing created), "runCreated" (docker run fails
\* after the container was created), "shell", "publicKey", "copy".
createMachine(c, m, i, cs, fault) ==
    LET name     == m.name
        launched == [cs EXCEPT ![name] = [st |-> "started", inited |-> FALSE, keyed |-> FALSE]]
        created  == [cs EXCEPT ![name] = [st |-> "stopped", inited |-> FALSE, keyed |-> FALSE]]
        inited   == [launched EXCEPT ![name].inited = TRUE]
        keyed    == [inited EXCEPT ![name].keyed = TRUE]
    IN  IF IsRunning(cs, name) THEN Outcome(cs, <<>>, NoErr)
        ELSE IF fault = "run" THEN Outcome(cs, <<"run">>, BackendErr("run", name))
        ELSE IF fault = "runCreated" THEN Outcome(created, <<"run">>, BackendErr("run", name))
        ELSE IF fault = "shell"
             THEN Outcome(launched, <<"run", "shell">>, BackendErr("shell", name))
        ELSE IF fault = "publicKey"
             THEN Outcome(inited, <<"run", "shell", "publicKey">>, <<"read public key failed">>)
        ELSE IF fault = "copy"
             THEN Outcome(inited, <<"run", "shell", "publicKey", "copy">>, BackendErr("copy", name))
        ELSE Outcome(keyed, <<"run", "shell", "publicKey", "copy">>, NoErr)

\* deleteMachine without the kill: a started container is removed directly.
deleteMachineNoKill(c, m, i, cs, fault) ==
    LET name    == m.name
        removed == [cs EXCEPT ![name] = Absent]
    IN  IF ~IsRunning(cs, name) THEN Outcome(cs, <<>>, NoErr)
        ELSE IF fault = "rm" THEN Outcome(cs, <<"rm">>, BackendErr("rm", name))
        ELSE Outcome(removed, <<"rm">>, NoErr)

\* deleteMachine. fault: "kill" or "rm" fails, or "none".
deleteMachine(c, m, i, cs, fault) ==
    LET name    == m.name
        killed  == [cs EXCEPT ![name].st = "stopped"]
        removed == [cs EXCEPT ![name] = Absent]
    IN  IF ~IsRunning(cs, name) THEN Outcome(cs, <<>>, NoErr)
        ELSE IF IsStarted(cs, name)
             THEN IF fault = "kill" THEN Outcome(cs, <<"kill">>, BackendErr("kill", name))
                  ELSE IF fault = "rm"
                       THEN Outcome(killed, <<"kill", "rm">>, BackendErr("rm", name))
                       ELSE Outcome(removed, <<"kill", "rm">>, NoErr)
             ELSE IF fault = "rm" THEN Outcome(cs, <<"rm">>, BackendErr("rm", name))
                  ELSE Outcome(removed, <<"rm">>, NoErr)

\* startMachine without its IsRunning check: it issues start for an absent name.
startMachineUnchecked(c, m, i, cs, fault) ==
    LET name == m.name
    IN  IF IsStarted(cs, name) THEN Outcome(cs, <<>>, NoErr)
        ELSE IF fault = "start" \/ ~IsRunning(cs, name)
             THEN Outcome(cs, <<"start">>, BackendErr("start", name))
        ELSE Outcome([cs EXCEPT ![name].st = "started"], <<"start">>, NoErr)

\* startMachine. fault: "start" fails, or "none".
startMachine(c, m, i, cs, fault) ==
    LET name == m.name
    IN  IF ~IsRunning(cs, name) THEN Outcome(cs, <<>>, NoErr)
        ELSE IF IsStarted(cs, name) THEN Outcome(cs, <<>>, NoErr)
        ELSE IF fault = "start" THEN Outcome(cs, <<"start">>, BackendErr("start", name))
        ELSE Outcome([cs EXCEPT ![name].st = "started"], <<"start">>, NoErr)

\* stopMachine without its IsStarted check: it issues stop for a stopped container.
stopMachineUnchecked(c, m, i, cs, fault) ==
    LET name == m.name
    IN  IF ~IsRunning(cs, name) THEN Outcome(cs, <<>>, NoErr)
        ELSE IF fault = "stop" THEN Outcome(cs, <<"stop">>, BackendErr("stop", name))
        ELSE Outcome([cs EXCEPT ![name].st = "stopped"], <<"stop">>, NoErr)

\* stopMachine. fault: "stop" fails, or "none".
stopMachine(c, m, i, cs, fault) ==
    LET name == m.name
    IN  IF ~IsRunning(cs, name) THEN Outcome(cs, <<>>, NoErr)
        ELSE IF ~IsStarted(cs, name) THEN Outcome(cs, <<>>, NoErr)
        ELSE IF fault = "stop" THEN Outcome(cs, <<"stop">>, BackendErr("stop", name))
        ELSE Outcome([cs EXCEPT ![name].st = "stopped"], <<"stop">>, NoErr)

-----------------------------------------------------------------------------
(* Configurations.                                                         *)

ClusterName == <<"c">>

MkTemplate(name, count) ==
    [Count |-> count,
     Spec  |-> [Name |-> name, Cmd |-> <<>>, Privileged |-> FALSE,
                PortMappings |-> <<>>, Volumes |-> <<>>]]

PortMapping(containerPort, hostPort, address, protocol) ==
    [ContainerPort |-> containerPort, HostPort |-> hostPort,
     Address |-> address, Protocol |-> protocol]

Volume(type, source, destination, readOnly) ==
    [Type |-> type, Source |-> source, Destination |-> destination, ReadOnly |-> readOnly]

MkConfig(templates) == [Cluster |-> [Name |-> ClusterName], Machines |-> templates]

RECURSIVE TotalCount(_, _)
TotalCount(templates, from) ==
    IF from > Len(templates) THEN 0
    ELSE templates[from].Count + TotalCount(templates, from + 1)

\* The template lists over a set of names: at most MaxTemplates templates of
\* at most MaxCount replicas each, at most MaxInstances instances in all.
TemplateLists(names) ==
    LET one == {MkTemplate(n, k) : n \in names, k \in 0..MaxCount}
        all == UNION {[1..n -> one] : n \in 0..MaxTemplates}
    IN  {ts \in all : TotalCount(ts, 1) <= MaxInstances}

\* The name of the t-th template of a lifecycle configuration: n%d, nn%d, ...
LifeName(t) == [k \in 1..t |-> "n"] \o <<"%d">>

\* Lifecycle configurations: the t-th template is named LifeName(t).
LifeConfigs ==
    {MkConfig(ts) : ts \in {x \in TemplateLists({LifeName(t) : t \in 1..MaxTemplates}) :
                                \A t \in 1..Len(x) : x[t].Spec.Name = LifeName(t)}}

\* The container names of the declared instances.
Names(c) ==
    {machine(c, Instances(c)[k].t, Instances(c)[k].i).name : k \in 1..Len(Instances(c))}

-----------------------------------------------------------------------------
(* Fleet operations: Create, Start, Stop, Delete over forEachMachine.      *)

Pending == <<"pending">>

\* forEachMachine that goes on after a failed call and returns the last error.
forEachMachineNoStop(c, visited, e) ==
    IF visited >= Len(Instances(c)) THEN [running |-> FALSE, ret |-> e]
    ELSE [running |-> TRUE, ret |-> Pending]

\* forEachMachine's loop control after the visited-th call of do returned e:
\* return e at once if it is an error, return nil after the last instance.
forEachMachine(c, visited, e) ==
    IF e /= NoErr THEN [running |-> FALSE, ret |-> e]
    ELSE IF visited >= Len(Instances(c)) THEN [running |-> FALSE, ret |-> NoErr]
    ELSE [running |-> TRUE, ret |-> Pending]

\* The instance forEachMachine hands to do at its (visited+1)-th call.
NextInstance(c, visited) == Instances(c)[visited + 1]

\* The machine the running operation visits next.
Current ==
    LET inst == NextInstance(spec, cursor)
    IN  [i |-> inst.i, m |-> machine(spec, inst.t, inst.i)]

\* One iteration of forEachMachine whose call of do had outcome r.
Visit(r) ==
    LET loop == forEachMachine(spec, cursor + 1, r.err)
    IN  /\ containers' = r.cs
        /\ calls' = r.calls
        /\ err' = r.err
        /\ cursor' = cursor + 1
        /\ running' = loop.running
        /\ ret' = loop.ret
        /\ UNCHANGED <<spec, op, nameVars, sshVars, argVars, gatherVars>>

\* Entering forEachMachine from a fleet operation.
Begin(name) ==
    LET loop == forEachMachine(spec, 0, NoErr)
    IN  /\ ~running
        /\ op' = name
        /\ cursor' = 0
        /\ calls' = <<>>
        /\ err' = NoErr
        /\ running' = loop.running
        /\ ret' = loop.ret
        /\ UNCHANGED <<spec, containers, nameVars, sshVars, argVars, gatherVars>>

\* Cluster.Create up to its loop: ensureSSHKey and the image pulls may fail
\* first, and then no machine is visited.
Create ==
    \/ Begin("Create")
    \/ /\ ~running
       /\ \E e \in {<<"ssh-keygen failed">>} \cup
                    (IF Len(spec.Machines) > 0 THEN {<<"pull failed">>} ELSE {}) :
              ret' = e
       /\ op' = "Create"
       /\ cursor' = 0
       /\ calls' = <<>>
       /\ err' = NoErr
       /\ running' = FALSE
       /\ UNCHANGED <<spec, containers, nameVars, sshVars, argVars, gatherVars>>

CreateStep ==
    /\ running /\ op = "Create"
    /\ \E fault \in {"none", "run", "runCreated", "shell", "publicKey", "copy"} :
           Visit(createMachine(spec, Current.m, Current.i, containers, fault))

Delete == Begin("Delete")

DeleteStep ==
    /\ running /\ op = "Delete"
    /\ \E fault \in {"none", "kill", "rm"} :
           Visit(deleteMachine(spec, Current.m, Current.i, containers, fault))

Start == Begin("Start")

StartStep ==
    /\ running /\ op = "Start"
    /\ \E fault \in {"none", "start"} :
           Visit(startMachine(spec, Current.m, Current.i, containers, fault))

Stop == Begin("Stop")

StopStep ==
    /\ running /\ op = "Stop"
    /\ \E fault \in {"none", "stop"} :
           Visit(stopMachine(spec, Current.m, Current.i, containers, fault))

NoLookup == [err |-> NoErr, t |-> 0, i |-> 0]

\* No fleet operation has run: every declared container is absent.
LifeIdle ==
    /\ containers = [n \in Names(spec) |-> Absent]
    /\ op = "none"
    /\ running = FALSE
    /\ cursor = 0
    /\ calls = <<>>
    /\ err = NoErr
    /\ ret = NoErr

\* Neither Cluster.machine nor machineFromHostname has been called.
NamesIdle ==
    /\ hostnameArg = <<>>
    /\ machineRes = NoLookup
    /\ made = NoLookup

NoFilters ==
    [refusedFilter |-> [matched |-> FALSE], errFilter |-> [matched |-> FALSE]]

\* Cluster.SSH has not been called.
SSHIdle ==
    /\ sshpc = "idle"
    /\ sshArgs = [p |-> <<>>, l |-> <<>>, remote |-> <<>>]
    /\ retries = 0
    /\ retry = FALSE
    /\ sshErr = NoErr
    /\ sshRet = NoErr
    /\ attempts = 0
    /\ transients = 0
    /\ writes = <<>>
    /\ exit = NoErr
    /\ filters = NoFilters
    /\ stderr = <<>>

\* createMachineRunArgs has not been called.
ArgsIdle ==
    /\ runArgs = <<>>
    /\ runInst = [t |-> 0, i |-> 0]

\* Neither Show nor Inspect has been called.
GatherIdle ==
    /\ inspects = <<>>
    /\ gop = "none"
    /\ gathered = <<>>
    /\ gatherRet = NoErr
    /\ inspected = 0

Init ==
    /\ spec \in LifeConfigs
    /\ LifeIdle
    /\ NamesIdle
    /\ SSHIdle
    /\ ArgsIdle
    /\ GatherIdle

Next ==
    \/ Create
    \/ CreateStep
    \/ Delete
    \/ DeleteStep
    \/ Start
    \/ StartStep
    \/ Stop
    \/ StopStep

Spec == Init /\ [][Next]_vars

\* Create called again and again, with no other fleet operation in between.
NextCreate ==
    \/ Create
    \/ CreateStep

SpecCreate == Init /\ [][NextCreate]_vars

-----------------------------------------------------------------------------
(* Machine identity over arbitrary template names.                         *)

\* Template names as a configuration file may give them: n%d, n%v, m%d, a
\* name with no verb and a name with two verbs.
NameFormats ==
    {<<"n", "%d">>, <<"n", "%v">>, <<"m", "%d">>, <<"n">>, <<"n", "%d", "%d">>}

\* Configurations over those names, the names of one configuration pairwise
\* distinct.
NameConfigs ==
    {MkConfig(ts) : ts \in {x \in TemplateLists(NameFormats) :
                                \A a, b \in 1..Len(x) :
                                    a /= b => x[a].Spec.Name /= x[b].Spec.Name}}

\* Hostnames to look up: every name format at every index up to MaxCount
\* (declared or not), the bare text n and the empty string.
Hostnames ==
    {f(n, <<IntArg(i)>>) : n \in NameFormats, i \in 0..MaxCount} \cup {<<"n">>, <<>>}

\* A call of machineFromHostname, as Cluster.SSH makes it.
MachineFromHostname ==
    /\ \E h \in Hostnames :
           /\ hostnameArg' = h
           /\ machineRes' = machineFromHostname(spec, h)
    /\ UNCHANGED <<spec, lifeVars, made, sshVars, argVars, gatherVars>>

\* A call of Cluster.machine on a declared (template, index).
Machine ==
    /\ \E k \in 1..Len(Instances(spec)) :
           LET inst == Instances(spec)[k]
           IN  made' = [err |-> NoErr, t |-> inst.t, i |-> inst.i,
                        machine |-> machine(spec, inst.t, inst.i)]
    /\ UNCHANGED <<spec, lifeVars, hostnameArg, machineRes, sshVars, argVars, gatherVars>>

InitNames ==
    /\ spec \in NameConfigs
    /\ LifeIdle
    /\ NamesIdle
    /\ SSHIdle
    /\ ArgsIdle
    /\ GatherIdle

NextNames ==
    \/ MachineFromHostname
    \/ Machine

SpecNames == InitNames /\ [][NextNames]_vars

-----------------------------------------------------------------------------
(* Remote session: matchFilter, ssh and Cluster.SSH.                       *)

MaxWrites == 2       \* writes of one ssh process to its standard error

\* retries := 25
Retries == 25

\* The container port of sshd, as Cluster.SSH passes it.
SSHPort == 22

\* connectRefused, ^ssh_exchange_identification: , matches a write that begins
\* with that text.
MatchConnectRefused(p) ==
    Len(p) >= 2 /\ p[1] = "ssh_exchange_" /\ p[2] = "identification: "

\* Whether an atom holds a line feed, which . and .* do not match.
HasLineFeed(a) == a \in {"<LF>", "<CRLF>"}

\* knownHosts, ^Warning: Permanently added .* to the list of known hosts. ,
\* matches a write that begins with the first text and has the second one on
\* the same line, followed by one more character that is no line feed.
MatchKnownHosts(p) ==
    /\ Len(p) >= 3
    /\ p[1] = "Warning: Permanently added "
    /\ \E j \in 2..(Len(p) - 1) :
          /\ p[j] = " to the list of known hosts"
          /\ p[j + 1] /= "<LF>"
          /\ \A k \in 2..(j - 1) : ~HasLineFeed(p[k])

Match(regexp, p) ==
    IF regexp = "connectRefused" THEN MatchConnectRefused(p) ELSE MatchKnownHosts(p)

\* matchFilter.Write that passes a matching write on as well.
matchFilterWriteThrough(flt, p) ==
    IF Match(flt.regexp, p)
    THEN [filter |-> [flt EXCEPT !.matched = TRUE], forward |-> TRUE]
    ELSE [filter |-> flt, forward |-> TRUE]

\* matchFilter.Write: a matching write sets matched and, writeMatched being
\* false, is dropped; any other write goes to the filter's writer.
matchFilterWrite(flt, p) ==
    IF Match(flt.regexp, p)
    THEN [filter |-> [flt EXCEPT !.matched = TRUE], forward |-> flt.writeMatched]
    ELSE [filter |-> flt, forward |-> TRUE]

\* The writes ws[k..] of the ssh process through errFilter, whose writer is
\* refusedFilter, whose writer is os.Stderr.
RECURSIVE Pipe(_, _, _)
Pipe(st, ws, k) ==
    IF k > Len(ws) THEN st
    ELSE LET a == matchFilterWrite(st.errFilter, ws[k])
             b == IF a.forward THEN matchFilterWrite(st.refusedFilter, ws[k])
                  ELSE [filter |-> st.refusedFilter, forward |-> FALSE]
         IN  Pipe([errFilter     |-> a.filter,
                   refusedFilter |-> b.filter,
                   out           |-> IF b.forward THEN Append(st.out, ws[k]) ELSE st.out],
                  ws, k + 1)

\* ssh that asks for another try after any failure.
sshRetryAnyError(args, ws, exitErr) ==
    LET after == Pipe([errFilter     |-> [writeMatched |-> FALSE, regexp |-> "knownHosts",
                                          matched |-> FALSE],
                       refusedFilter |-> [writeMatched |-> FALSE, regexp |-> "connectRefused",
                                          matched |-> FALSE],
                       out           |-> <<>>], ws, 1)
    IN  [retry   |-> exitErr /= NoErr,
         err     |-> exitErr,
         filters |-> [refusedFilter |-> [matched |-> after.refusedFilter.matched],
                      errFilter     |-> [matched |-> after.errFilter.matched]],
         stderr  |-> after.out]

\* ssh: runs the ssh client with two fresh filters on its standard error; ws
\* are the writes the process makes and exitErr is what cmd.Run returns.
ssh(args, ws, exitErr) ==
    LET after == Pipe([errFilter     |-> [writeMatched |-> FALSE, regexp |-> "knownHosts",
                                          matched |-> FALSE],
                       refusedFilter |-> [writeMatched |-> FALSE, regexp |-> "connectRefused",
                                          matched |-> FALSE],
                       out           |-> <<>>], ws, 1)
    IN  [retry   |-> exitErr /= NoErr /\ after.refusedFilter.matched,
         err     |-> exitErr,
         filters |-> [refusedFilter |-> [matched |-> after.refusedFilter.matched],
                      errFilter     |-> [matched |-> after.errFilter.matched]],
         stderr  |-> after.out]

\* mappingFromPort that hands back the first declared mapping, whatever its
\* container port.
mappingFromPortFirst(mspec, containerPort) ==
    IF Len(mspec.PortMappings) = 0
    THEN [err |-> <<"unknown containerPort ">> \o Dec(containerPort)]
    ELSE [err |-> NoErr, mapping |-> mspec.PortMappings[1]]

\* mappingFromPort: the first declared mapping of the container port.
mappingFromPort(mspec, containerPort) ==
    LET hits == {k \in 1..Len(mspec.PortMappings) :
                    mspec.PortMappings[k].ContainerPort = containerPort}
    IN  IF hits = {}
        THEN [err |-> <<"unknown containerPort ">> \o Dec(containerPort)]
        ELSE [err |-> NoErr,
              mapping |-> mspec.PortMappings[CHOOSE x \in hits : \A y \in hits : x <= y]]

\* Machine.HostPort: the host port declared for the container port.
HostPort(mspec, containerPort) ==
    LET found == mappingFromPort(mspec, containerPort)
    IN  IF found.err /= NoErr THEN [err |-> found.err]
        ELSE [err |-> NoErr, hostPort |-> found.mapping.HostPort]

\* The retry loop of Cluster.SSH with one more round than it has.
sshLoopOneMore(left, again) ==
    IF ~again THEN [retries |-> left, done |-> TRUE]
    ELSE [retries |-> left - 1, done |-> ~(left - 1 >= 0)]

\* The retry loop of Cluster.SSH after a call of ssh: break when ssh does not
\* ask for a retry, else count retries down and go on while retries > 0.
sshLoop(left, again) ==
    IF ~again THEN [retries |-> left, done |-> TRUE]
    ELSE [retries |-> left - 1, done |-> ~(left - 1 > 0)]

\* Declared port tables: none, port 80 only, sshd on 2222, and sshd on 2222 of
\* one address after a mapping of port 80.
SSHPortTables ==
    {<<>>,
     <<PortMapping(80, 8080, <<>>, <<"tcp">>)>>,
     <<PortMapping(22, 2222, <<>>, <<>>)>>,
     <<PortMapping(80, 8080, <<>>, <<"tcp">>),
       PortMapping(22, 2222, <<"1.2.3.4">>, <<>>)>>}

\* One template n%d of MaxCount replicas with one of those port tables.
SSHConfigs ==
    {MkConfig(<<[Count |-> MaxCount,
                 Spec  |-> [Name |-> <<"n", "%d">>, Cmd |-> <<>>, Privileged |-> FALSE,
                            PortMappings |-> pm, Volumes |-> <<>>]]>>) :
        pm \in SSHPortTables}

\* Node names to log into: n0 .. n<MaxCount> (the last one not declared).
Nodenames == {f(<<"n", "%d">>, <<IntArg(i)>>) : i \in 0..MaxCount}

\* Writes of the ssh client: the refusal, the known-hosts warning, another
\* failure, and another failure followed by the refusal in one write.
StderrWrites ==
    LET refused == <<"ssh_exchange_", "identification: ",
                     "read: Connection reset by peer", "<LF>">>
        denied  == <<"Permission denied (publickey).", "<LF>">>
    IN  {refused,
         <<"Warning: Permanently added ", "'172.17.0.2' (ECDSA)",
           " to the list of known hosts", ".", "<CRLF>">>,
         denied,
         denied \o refused}

WriteSeqs == UNION {[1..n -> StderrWrites] : n \in 0..MaxWrites}

\* The error cmd.Run returns when the k-th ssh process of a call fails.
ExitErr(k) == <<"exit status 255 of ssh process ">> \o Dec(k)

\* Cluster.SSH up to its retry loop: it returns at once when the node name,
\* the host port or the mapping of port 22 cannot be resolved.
SSH ==
    /\ sshpc \in {"idle", "done"}
    /\ \E nodename \in Nodenames :
          LET found   == machineFromHostname(spec, nodename)
              mspec   == spec.Machines[found.t].Spec
              port    == HostPort(mspec, SSHPort)
              mapping == mappingFromPort(mspec, SSHPort)
              failure == IF found.err /= NoErr THEN found.err
                         ELSE IF port.err /= NoErr THEN port.err
                         ELSE mapping.err
          IN  /\ hostnameArg' = nodename
              /\ machineRes' = found
              /\ IF failure /= NoErr
                 THEN /\ sshpc' = "done"
                      /\ sshRet' = failure
                      /\ sshArgs' = [p |-> <<>>, l |-> <<>>, remote |-> <<>>]
                      /\ retries' = 0
                 ELSE /\ sshpc' = "loop"
                      /\ sshRet' = Pending
                      /\ sshArgs' = [p      |-> Dec(port.hostPort),
                                     l      |-> <<"root">>,
                                     remote |-> IF mapping.mapping.Address /= <<>>
                                                THEN mapping.mapping.Address
                                                ELSE <<"localhost">>]
                      /\ retries' = Retries
    /\ retry' = FALSE
    /\ sshErr' = NoErr
    /\ attempts' = 0
    /\ transients' = 0
    /\ writes' = <<>>
    /\ exit' = NoErr
    /\ filters' = NoFilters
    /\ stderr' = <<>>
    /\ UNCHANGED <<spec, lifeVars, made, argVars, gatherVars>>

\* A write that begins with the refusal signature.
BeginsWithSignature(p) ==
    Len(p) >= 2 /\ p[1] = "ssh_exchange_" /\ p[2] = "identification: "

\* One round of the retry loop: an ssh process runs, writes ws to its standard
\* error and exits; then the loop breaks, runs out, or goes round again.
SSHAttempt ==
    /\ sshpc = "loop"
    /\ \E ws \in WriteSeqs, failed \in BOOLEAN :
          LET exitErr == IF failed THEN ExitErr(attempts + 1) ELSE NoErr
              r       == ssh(sshArgs, ws, exitErr)
              loop    == sshLoop(retries, r.retry)
          IN  /\ retry' = r.retry
              /\ sshErr' = r.err
              /\ filters' = r.filters
              /\ stderr' = r.stderr
              /\ writes' = ws
              /\ exit' = exitErr
              /\ attempts' = attempts + 1
              /\ transients' = transients +
                    (IF failed /\ \E k \in 1..Len(ws) : BeginsWithSignature(ws[k])
                     THEN 1 ELSE 0)
              /\ retries' = loop.retries
              /\ sshpc' = IF loop.done THEN "done" ELSE "loop"
              /\ sshRet' = IF loop.done THEN r.err ELSE sshRet
    /\ UNCHANGED <<spec, lifeVars, nameVars, sshArgs, argVars, gatherVars>>

InitSSH ==
    /\ spec \in SSHConfigs
    /\ LifeIdle
    /\ NamesIdle
    /\ SSHIdle
    /\ ArgsIdle
    /\ GatherIdle

NextSSH ==
    \/ SSH
    \/ SSHAttempt

SpecSSH == InitSSH /\ [][NextSSH]_vars

-----------------------------------------------------------------------------
(* One ssh process and its two filters, over more ways of writing.         *)

\* Writes of one ssh client: those of StderrWrites; the refusal cut in two
\* inside its first word; the known-hosts warning with the refusal after it
\* in the same write; the warning cut before its last character.
FilterWrites ==
    LET refused == <<"ssh_exchange_", "identification: ",
                     "read: Connection reset by peer", "<LF>">>
        warning == <<"Warning: Permanently added ", "'172.17.0.2' (ECDSA)",
                     " to the list of known hosts", ".", "<CRLF>">>
    IN  StderrWrites
        \cup {<<"ssh_exchange_">>,
              <<"identification: ", "read: Connection reset by peer", "<LF>">>,
              warning \o refused,
              <<"Warning: Permanently added ", "'172.17.0.2' (ECDSA)",
                " to the list of known hosts">>}

FilterWriteSeqs == UNION {[1..n -> FilterWrites] : n \in 0..MaxWrites}

\* A call of ssh, the first of a behaviour: the process writes ws to its
\* standard error and exits.
RunSsh ==
    /\ attempts = 0
    /\ \E ws \in FilterWriteSeqs, failed \in BOOLEAN :
          LET exitErr == IF failed THEN ExitErr(1) ELSE NoErr
              r       == ssh(sshArgs, ws, exitErr)
          IN  /\ retry' = r.retry
              /\ sshErr' = r.err
              /\ filters' = r.filters
              /\ stderr' = r.stderr
              /\ writes' = ws
              /\ exit' = exitErr
    /\ attempts' = 1
    /\ UNCHANGED <<spec, lifeVars, nameVars, sshpc, sshArgs, retries, sshRet, transients,
                   argVars, gatherVars>>

InitFilter ==
    /\ spec = MkConfig(<<>>)
    /\ LifeIdle
    /\ NamesIdle
    /\ SSHIdle
    /\ ArgsIdle
    /\ GatherIdle

NextFilter == RunSsh

SpecFilter == InitFilter /\ [][NextFilter]_vars

-----------------------------------------------------------------------------
(* Container provisioning: createMachineRunArgs.                           *)

MaxPorts == 2        \* port mappings of one template
MaxVolumes == 2      \* volumes of one template

\* The --mount arguments with ,src= written for every volume, also for one
\* that has no source.
RECURSIVE MountArgsAlwaysSrc(_, _)
MountArgsAlwaysSrc(volumes, k) ==
    IF k > Len(volumes) THEN <<>>
    ELSE LET volume == volumes[k]
             mount  == f(<<"type=", "%s">>, <<StrArg(volume.Type)>>)
                       \o f(<<",src=", "%s">>, <<StrArg(volume.Source)>>)
                       \o f(<<",dst=", "%s">>, <<StrArg(volume.Destination)>>)
                       \o (IF volume.ReadOnly THEN <<",readonly">> ELSE <<>>)
         IN  <<(<<"--mount">>), mount>> \o MountArgsAlwaysSrc(volumes, k + 1)

\* The --mount arguments of the volumes from the k-th on.
RECURSIVE MountArgs(_, _)
MountArgs(volumes, k) ==
    IF k > Len(volumes) THEN <<>>
    ELSE LET volume == volumes[k]
             mount  == f(<<"type=", "%s">>, <<StrArg(volume.Type)>>)
                       \o (IF volume.Source /= <<>>
                           THEN f(<<",src=", "%s">>, <<StrArg(volume.Source)>>) ELSE <<>>)
                       \o f(<<",dst=", "%s">>, <<StrArg(volume.Destination)>>)
                       \o (IF volume.ReadOnly THEN <<",readonly">> ELSE <<>>)
         IN  <<(<<"--mount">>), mount>> \o MountArgs(volumes, k + 1)

\* The -p arguments with the host port added to the index in 16 bits.
RECURSIVE PublishArgsWrapping(_, _, _)
PublishArgsWrapping(mappings, i, k) ==
    IF k > Len(mappings) THEN <<>>
    ELSE LET mapping == mappings[k]
             publish == (IF mapping.Address /= <<>>
                         THEN f(<<"%s", ":">>, <<StrArg(mapping.Address)>>) ELSE <<>>)
                        \o (IF mapping.HostPort /= 0
                            THEN f(<<"%d", ":">>, <<IntArg((mapping.HostPort + i) % 65536)>>)
                            ELSE <<>>)
                        \o f(<<"%d">>, <<IntArg(mapping.ContainerPort)>>)
                        \o (IF mapping.Protocol /= <<>>
                            THEN f(<<"/", "%s">>, <<StrArg(mapping.Protocol)>>) ELSE <<>>)
         IN  <<(<<"-p">>), publish>> \o PublishArgsWrapping(mappings, i, k + 1)

\* The -p arguments of the port mappings from the k-th on, for replica i:
\* int(mapping.HostPort)+i is an int sum, which does not wrap at 16 bits.
RECURSIVE PublishArgs(_, _, _)
PublishArgs(mappings, i, k) ==
    IF k > Len(mappings) THEN <<>>
    ELSE LET mapping == mappings[k]
             publish == (IF mapping.Address /= <<>>
                         THEN f(<<"%s", ":">>, <<StrArg(mapping.Address)>>) ELSE <<>>)
                        \o (IF mapping.HostPort /= 0
                            THEN f(<<"%d", ":">>, <<IntArg(mapping.HostPort + i)>>)
                            ELSE <<>>)
                        \o f(<<"%d">>, <<IntArg(mapping.ContainerPort)>>)
                        \o (IF mapping.Protocol /= <<>>
                            THEN f(<<"/", "%s">>, <<StrArg(mapping.Protocol)>>) ELSE <<>>)
         IN  <<(<<"-p">>), publish>> \o PublishArgs(mappings, i, k + 1)

\* createMachineRunArgs: the fixed arguments, a --mount per volume, a -p per
\* port mapping and --privileged if asked for. mspec is machine.spec.
createMachineRunArgs(c, mspec, m, name, i) ==
    << <<"-it">>, <<"-d">>,
       <<"--label">>, <<"works.weave.owner=footloose">>,
       <<"--label">>, <<"works.weave.cluster=">> \o c.Cluster.Name,
       <<"--name">>, name,
       <<"--hostname">>, m.hostname,
       <<"--tmpfs">>, <<"/run">>,
       <<"--tmpfs">>, <<"/run/lock">>,
       <<"--tmpfs">>, <<"/tmp">>,
       <<"-v">>, <<"/sys/fs/cgroup:/sys/fs/cgroup:ro">> >>
    \o MountArgs(mspec.Volumes, 1)
    \o PublishArgs(mspec.PortMappings, i, 1)
    \o (IF mspec.Privileged THEN << <<"--privileged">> >> ELSE <<>>)

\* Port mappings of sshd: no host port, 2222 or the largest 16-bit port; no
\* address or one; no protocol or tcp.
PortMappingSet ==
    {PortMapping(22, hp, a, pr) :
        hp \in {0, 2222, 65535}, a \in {<<>>, <<"1.2.3.4">>}, pr \in {<<>>, <<"tcp">>}}

\* Volumes: bind or volume, with or without a source, read-only or not.
VolumeSet ==
    {Volume(ty, src, <<"/b">>, ro) :
        ty \in {<<"bind">>, <<"volume">>}, src \in {<<>>, <<"/a">>}, ro \in BOOLEAN}

\* One template n%d of MaxCount replicas: with port mappings and neither
\* volumes nor privilege, or with volumes, privilege or not, and no mappings.
ArgsConfigs ==
    LET ports   == UNION {[1..n -> PortMappingSet] : n \in 0..MaxPorts}
        volumes == UNION {[1..n -> VolumeSet] : n \in 0..MaxVolumes}
        shapes  == {[pm |-> pm, vs |-> <<>>, priv |-> FALSE] : pm \in ports}
                   \cup {[pm |-> <<>>, vs |-> vs, priv |-> priv] :
                            vs \in volumes, priv \in BOOLEAN}
    IN  {MkConfig(<<[Count |-> MaxCount,
                     Spec  |-> [Name |-> <<"n", "%d">>, Cmd |-> <<>>,
                                Privileged |-> x.priv,
                                PortMappings |-> x.pm, Volumes |-> x.vs]]>>) :
            x \in shapes}

\* A call of createMachineRunArgs, as createMachine makes it for an instance.
CreateMachineRunArgs ==
    /\ \E k \in 1..Len(Instances(spec)) :
          LET inst == Instances(spec)[k]
              m    == machine(spec, inst.t, inst.i)
          IN  /\ runInst' = inst
              /\ runArgs' = createMachineRunArgs(spec, spec.Machines[inst.t].Spec,
                                                 m, m.name, inst.i)
    /\ UNCHANGED <<spec, lifeVars, nameVars, sshVars, gatherVars>>

InitArgs ==
    /\ spec \in ArgsConfigs
    /\ LifeIdle
    /\ NamesIdle
    /\ SSHIdle
    /\ ArgsIdle
    /\ GatherIdle

NextArgs == CreateMachineRunArgs

SpecArgs == InitArgs /\ [][NextArgs]_vars

-----------------------------------------------------------------------------
(* Fleet inspection: gatherMachinesByCluster, gatherMachines, Show, Inspect. *)

MaxGathered == 2     \* instances of a cluster that is inspected

\* What the backend reports for a name it has no container of.
NoInspect ==
    [Ports |-> <<>>, Mounts |-> <<>>, Config |-> [Cmd |-> <<>>],
     NetworkSettings |-> [IPAddress |-> <<>>]]

\* A key of inspect.NetworkSettings.Ports, such as 22/tcp.
PortKey(int, proto) == [Int |-> int, Proto |-> proto]

\* The orders in which a range over a Go map with the keys S may visit them.
Orders(S) ==
    {q \in [1..Cardinality(S) -> S] : \A a, b \in 1..Cardinality(S) : a /= b => q[a] /= q[b]}

\* gatherMachinesByCluster whose machines point at the cluster's own templates.
gatherMachinesByClusterShared(c) ==
    [k \in 1..Len(Instances(c)) |->
        LET inst == Instances(c)[k]
            m    == machine(c, inst.t, inst.i)
        IN  [spec     |-> [to |-> "template", t |-> inst.t],
             name     |-> m.name,
             hostname |-> m.hostname,
             ip       |-> <<>>]]

\* gatherMachinesByCluster with the inner loop counting down from Count - 1.
gatherMachinesByClusterDescending(c) ==
    [k \in 1..Len(Instances(c)) |->
        LET inst == Instances(c)[k]
            i    == c.Machines[inst.t].Count - 1 - inst.i
            m    == machine(c, inst.t, i)
        IN  [spec     |-> [to |-> "s", s |-> c.Machines[inst.t].Spec],
             name     |-> m.name,
             hostname |-> m.hostname,
             ip       |-> <<>>]]

\* gatherMachinesByCluster: one machine per declared instance, in the order of
\* the nested loops. The spec of each machine points to s, the copy of the
\* template's Spec that its iteration made.
gatherMachinesByCluster(c) ==
    [k \in 1..Len(Instances(c)) |->
        LET inst == Instances(c)[k]
            m    == machine(c, inst.t, inst.i)
        IN  [spec     |-> [to |-> "s", s |-> c.Machines[inst.t].Spec],
             name     |-> m.name,
             hostname |-> m.hostname,
             ip       |-> <<>>]]

\* The port mappings gatherMachines builds from inspect.NetworkSettings.Ports,
\* its keys visited in the given order, from the k-th on: a key without a
\* binding is skipped; HostPort is set from the key and ContainerPort from the
\* first binding's host port, both converted to uint16.
RECURSIVE OverlayPorts(_, _, _)
OverlayPorts(ports, order, k) ==
    IF k > Len(order) THEN <<>>
    ELSE LET v == ports[order[k]]
             hostPort == IF Len(v) < 1 THEN 0 ELSE Atoi(v[1].HostPort)
         IN  (IF Len(v) < 1 THEN <<>>
              ELSE <<[HostPort      |-> order[k].Int % 65536,
                      ContainerPort |-> hostPort % 65536,
                      Address       |-> v[1].HostIP,
                      Protocol      |-> <<>>]>>)
             \o OverlayPorts(ports, order, k + 1)

\* The volumes gatherMachines builds from inspect.Mounts: ReadOnly is set from
\* mount.RW.
OverlayVolumes(mounts) ==
    [k \in 1..Len(mounts) |->
        [Type        |-> mounts[k].Type,
         Source      |-> mounts[k].Source,
         Destination |-> mounts[k].Destination,
         ReadOnly    |-> mounts[k].RW]]

\* The loop of gatherMachines over the machines of gatherMachinesByCluster:
\* those the backend has are overlaid with what it reports; the first failed
\* inspection ends the loop with that error and the machines after it are
\* left as declared. ins is what docker inspect reports per name, orders the
\* order in which each name's port map is visited, failing the position of
\* the machine whose inspection fails (0 for none). The fields are written
\* through m.spec: into the machine's own copy, or into the template of c it
\* points to, where the last write stays.
Overlay(c, machines, cs, ins, orders, failing) ==
    LET n    == Len(machines)
        stop == IF failing \in 1..n /\ IsRunning(cs, machines[failing].name)
                THEN failing ELSE n + 1
        set(old, name) ==
            [old EXCEPT !.PortMappings = OverlayPorts(ins[name].Ports, orders[name], 1),
                        !.Volumes = OverlayVolumes(ins[name].Mounts),
                        !.Cmd = Join(ins[name].Config.Cmd, <<",">>, 1)]
        overlaid(k) == k < stop /\ IsRunning(cs, machines[k].name)
        written(t)  == {k \in 1..n : /\ overlaid(k)
                                     /\ machines[k].spec.to = "template"
                                     /\ machines[k].spec.t = t}
    IN  [c        |-> [c EXCEPT !.Machines =
                          [t \in 1..Len(c.Machines) |->
                              IF written(t) = {} THEN c.Machines[t]
                              ELSE LET k == CHOOSE x \in written(t) :
                                               \A y \in written(t) : y <= x
                                   IN  [Count |-> c.Machines[t].Count,
                                        Spec  |-> set(c.Machines[t].Spec, machines[k].name)]]],
         machines |-> [k \in 1..n |->
                          IF ~overlaid(k) THEN machines[k]
                          ELSE [spec     |-> IF machines[k].spec.to = "s"
                                             THEN [to |-> "s",
                                                   s  |-> set(machines[k].spec.s,
                                                              machines[k].name)]
                                             ELSE machines[k].spec,
                                name     |-> machines[k].name,
                                hostname |-> machines[k].hostname,
                                ip       |-> ins[machines[k].name].NetworkSettings.IPAddress]],
         err      |-> IF stop <= n THEN BackendErr("inspect", machines[stop].name) ELSE NoErr]

\* gatherMachines: machines = c.gatherMachinesByCluster(), then the loop.
gatherMachines(c, cs, ins, orders, failing) ==
    CHOOSE r \in {Overlay(c, machines, cs, ins, orders, failing) :
                      machines \in {gatherMachinesByCluster(c)}} : TRUE

\* The machines as their reader sees them once gatherMachines has returned:
\* each with the Spec its pointer leads to.
Machines(r) ==
    [k \in 1..Len(r.machines) |->
        LET m == r.machines[k]
        IN  [spec     |-> IF m.spec.to = "s" THEN m.spec.s ELSE r.c.Machines[m.spec.t].Spec,
             name     |-> m.name,
             hostname |-> m.hostname,
             ip       |-> m.ip]]

\* strings.TrimPrefix(s, "/").
TrimPrefix(str) == IF Len(str) > 0 /\ str[1] = "/" THEN Tail(str) ELSE str

\* What a template of an inspected cluster declares: the first template maps
\* sshd to host port 2222 and mounts /a read-only on /b; the others run a
\* command of their own and declare neither ports nor volumes.
GatherSpec(t) ==
    IF t = 1
    THEN [Name |-> LifeName(t), Cmd |-> <<>>, Privileged |-> FALSE,
          PortMappings |-> <<PortMapping(22, 2222, <<>>, <<>>)>>,
          Volumes |-> <<Volume(<<"bind">>, <<"/a">>, <<"/b">>, TRUE)>>]
    ELSE [Name |-> LifeName(t), Cmd |-> <<"/bin/bash">>, Privileged |-> FALSE,
          PortMappings |-> <<>>, Volumes |-> <<>>]

\* Inspected clusters: the lifecycle configurations of at most MaxGathered
\* instances, their templates declaring the above.
GatherConfigs ==
    {[c EXCEPT !.Machines = [t \in 1..Len(c.Machines) |->
                                [Count |-> c.Machines[t].Count, Spec |-> GatherSpec(t)]]] :
        c \in {x \in LifeConfigs : TotalCount(x.Machines, 1) <= MaxGathered}}

\* What the backend reports for a started container: sshd published on
\* 32768 of every address, port 80 on 8080 of one address, /a mounted
\* read-only on /b, a writable volume on /data.
Live ==
    [Ports     |-> (PortKey(22, "tcp") :> <<[HostIP |-> <<"0.0.0.0">>,
                                             HostPort |-> <<"3", "2", "7", "6", "8">>]>>)
                   @@ (PortKey(80, "tcp") :> <<[HostIP |-> <<"1.2.3.4">>,
                                                HostPort |-> <<"8", "0", "8", "0">>]>>),
     Mounts    |-> <<[Type |-> <<"bind">>, Source |-> <<"/a">>,
                      Destination |-> <<"/b">>, RW |-> FALSE],
                     [Type |-> <<"volume">>, Source |-> <<"/var/lib/docker/volumes/v/_data">>,
                      Destination |-> <<"/data">>, RW |-> TRUE]>>,
     Config    |-> [Cmd |-> << <<"/bin/sh">>, <<"-c">>, <<"sleep 1">> >>],
     NetworkSettings |-> [IPAddress |-> <<"172.17.0.2">>]]

\* What the backend reports for a stopped container: port 22 exposed and not
\* published, /a mounted writable on /b, no address.
Halted ==
    [Ports     |-> (PortKey(22, "tcp") :> <<>>),
     Mounts    |-> <<[Type |-> <<"bind">>, Source |-> <<"/a">>,
                      Destination |-> <<"/b">>, RW |-> TRUE]>>,
     Config    |-> [Cmd |-> << <<"/sbin/init">> >>],
     NetworkSettings |-> [IPAddress |-> <<>>]]

\* The positions at which an inspection can fail: those of the machines the
\* backend has, which are the ones inspected; 0 for no failure.
Failures ==
    {0} \cup {k \in 1..Len(Instances(spec)) :
                 IsRunning(containers, machine(spec, Instances(spec)[k].t,
                                               Instances(spec)[k].i).name)}

\* The orders in which one call may visit the port map of every name.
PortOrders ==
    {o \in [DOMAIN inspects -> UNION {Orders(DOMAIN inspects[n].Ports) :
                                        n \in DOMAIN inspects}] :
        \A n \in DOMAIN inspects :
            /\ Len(o[n]) = Cardinality(DOMAIN inspects[n].Ports)
            /\ {o[n][k] : k \in 1..Len(o[n])} = DOMAIN inspects[n].Ports}

\* Cluster.Show: gatherMachines, then the formatter of the output asked for,
\* which may be one getFormatter does not know.
Show ==
    /\ \E orders \in PortOrders, failing \in Failures :
       \E r \in {gatherMachines(spec, containers, inspects, orders, failing)} :
       \E known \in BOOLEAN :
          /\ spec' = r.c
          /\ gathered' = Machines(r)
          /\ gatherRet' = IF r.err /= NoErr THEN r.err
                          ELSE IF ~known THEN <<"unknown formatter">>
                          ELSE NoErr
    /\ gop' = "Show"
    /\ inspected' = 0
    /\ UNCHANGED <<lifeVars, nameVars, sshVars, argVars, inspects>>

\* Cluster.Inspect: gatherMachines, then the first machine of that name.
Inspect ==
    /\ \E orders \in PortOrders, failing \in Failures :
       \E r \in {gatherMachines(spec, containers, inspects, orders, failing)} :
       \E ms \in {Machines(r)} :
       \E node \in {ms[k].name : k \in 1..Len(ms)} \cup {<<"c", "-", "x">>} :
          LET hits == {k \in 1..Len(ms) : TrimPrefix(ms[k].name) = node}
          IN  /\ spec' = r.c
              /\ gathered' = ms
              /\ gatherRet' = IF r.err /= NoErr THEN r.err
                              ELSE IF hits = {}
                              THEN <<"machine with name ">> \o node \o <<" not found">>
                              ELSE NoErr
              /\ inspected' = IF r.err /= NoErr \/ hits = {} THEN 0
                              ELSE CHOOSE x \in hits : \A y \in hits : x <= y
    /\ gop' = "Inspect"
    /\ UNCHANGED <<lifeVars, nameVars, sshVars, argVars, inspects>>

\* Any backend state: every declared name is absent, started or stopped.
InitGather ==
    /\ spec \in GatherConfigs
    /\ \E st \in [Names(spec) -> {"absent", "started", "stopped"}] :
          /\ containers = [n \in Names(spec) |->
                              IF st[n] = "absent" THEN Absent
                              ELSE [st |-> st[n], inited |-> TRUE, keyed |-> TRUE]]
          /\ inspects = [n \in Names(spec) |->
                            CASE st[n] = "absent"  -> NoInspect
                              [] st[n] = "started" -> Live
                              [] st[n] = "stopped" -> Halted]
    /\ op = "none"
    /\ running = FALSE
    /\ cursor = 0
    /\ calls = <<>>
    /\ err = NoErr
    /\ ret = NoErr
    /\ NamesIdle
    /\ SSHIdle
    /\ ArgsIdle
    /\ gop = "none"
    /\ gathered = <<>>
    /\ gatherRet = NoErr
    /\ inspected = 0

NextGather ==
    \/ Show
    \/ Inspect

SpecGather == InitGather /\ [][NextGather]_vars

-----------------------------------------------------------------------------
(* Properties of the lifecycle state machine (specification Spec).         *)

\* How often x occurs in the sequence s.
Occurrences(s, x) == Cardinality({k \in 1..Len(s) : s[k] = x})

\* The machine the last per-machine action was invoked on.
Visited ==
    LET inst == Instances(spec)[cursor]
    IN  machine(spec, inst.t, inst.i)

\* C1: a step of Create on an absent instance issues exactly one backend run
\* and, unless that run itself fails, leaves the container created-started;
\* a step of Create on an instance that is not absent issues no run, returns
\* no error and leaves the whole backend unchanged. So a run is only ever
\* issued for a name the backend does not have: without a Delete in between
\* no two containers are launched for one instance.
C1_CreateIdempotent ==
    [][(running /\ op = "Create") =>
         LET n == Current.m.name
         IN  /\ containers[n].st = "absent" =>
                   /\ Occurrences(calls', "run") = 1
                   /\ calls'[1] = "run"
                   /\ err' /= BackendErr("run", n) => containers'[n].st = "started"
             /\ containers[n].st /= "absent" =>
                   /\ Occurrences(calls', "run") = 0
                   /\ err' = NoErr
                   /\ containers' = containers]_vars

\* Witness of C1: a Create has just visited an instance that an earlier
\* Create had provisioned, and issued nothing for it.
C1_Witness ==
    /\ op = "Create" /\ cursor > 0
    /\ calls = <<>> /\ err = NoErr
    /\ containers[Visited.name] = [st |-> "started", inited |-> TRUE, keyed |-> TRUE]

\* C2: a step of Delete on an absent instance issues nothing, returns no error
\* and changes nothing; on a created-started instance it issues kill first
\* and then rm (rm is skipped only when the kill failed) and, when it returns
\* no error, the instance is absent; on a created-stopped instance it issues
\* rm only and, when it returns no error, the instance is absent.
C2_DeleteTable ==
    [][(running /\ op = "Delete") =>
         LET n == Current.m.name
         IN  /\ containers[n].st = "absent" =>
                   calls' = <<>> /\ err' = NoErr /\ containers' = containers
             /\ containers[n].st = "started" =>
                   /\ calls' \in {<<"kill">>, <<"kill", "rm">>}
                   /\ calls' = <<"kill">> => err' = BackendErr("kill", n)
                   /\ err' = NoErr => calls' = <<"kill", "rm">> /\ containers'[n] = Absent
             /\ containers[n].st = "stopped" =>
                   /\ calls' = <<"rm">>
                   /\ err' = NoErr => containers'[n] = Absent]_vars

\* Witness of C2: a Delete has just killed and removed a started container.
C2_Witness ==
    /\ op = "Delete" /\ cursor > 0
    /\ calls = <<"kill", "rm">> /\ err = NoErr
    /\ containers[Visited.name] = Absent

\* C3: a step of Start on an absent instance issues nothing, returns no error
\* and leaves it absent (the backend is unchanged); on a created-started
\* instance it is a no-op too; on a created-stopped instance it issues the
\* backend start and, when that succeeds, the instance is created-started.
C3_StartTable ==
    [][(running /\ op = "Start") =>
         LET n == Current.m.name
         IN  /\ containers[n].st \in {"absent", "started"} =>
                   calls' = <<>> /\ err' = NoErr /\ containers' = containers
             /\ containers[n].st = "stopped" =>
                   /\ calls' = <<"start">>
                   /\ err' = NoErr => containers'[n].st = "started"
                   /\ \A x \in DOMAIN containers : x /= n => containers'[x] = containers[x]]_vars

\* Witness of C3: a Start has just visited an absent instance and left it absent
\* while another instance of the cluster exists.
C3_Witness ==
    /\ op = "Start" /\ cursor > 0
    /\ calls = <<>> /\ err = NoErr
    /\ containers[Visited.name] = Absent
    /\ \E x \in DOMAIN containers : containers[x].st = "started"

\* C4: a step of Stop on an absent or created-stopped instance never issues the
\* backend stop, returns no error and leaves the whole backend unchanged; on a
\* created-started instance it issues the backend stop and, when that
\* succeeds, the instance is created-stopped, its other fields and every other
\* container unchanged.
C4_StopTable ==
    [][(running /\ op = "Stop") =>
         LET n == Current.m.name
         IN  /\ containers[n].st \in {"absent", "stopped"} =>
                   /\ Occurrences(calls', "stop") = 0
                   /\ calls' = <<>>
                   /\ err' = NoErr
                   /\ containers' = containers
             /\ containers[n].st = "started" =>
                   /\ calls' = <<"stop">>
                   /\ err' = NoErr =>
                         containers' = [containers EXCEPT ![n].st = "stopped"]]_vars

\* Witness of C4: a Stop has just stopped a started, provisioned container.
C4_Witness ==
    /\ op = "Stop" /\ cursor > 0
    /\ calls = <<"stop">> /\ err = NoErr
    /\ containers[Visited.name] = [st |-> "stopped", inited |-> TRUE, keyed |-> TRUE]

\* The position of instance (t, i) in declaration order: the replicas of the
\* templates declared before t, then the indices below i.
Position(c, t, i) ==
    (TotalCount(c.Machines, 1) - TotalCount(c.Machines, t)) + i + 1

\* C5: while a fleet operation runs, each step is one invocation of the
\* per-instance action, on the instance whose position in declaration order
\* (templates in order, indices ascending) is one more than the number of
\* invocations made so far, and it changes no other container; when that
\* invocation fails the operation ends at once with that error as its result
\* and the invocation count at k; when it succeeds the operation goes on to
\* the next instance, and ends with no error after the last. Once the
\* operation has ended nothing is invoked and no container changes: the
\* instances after k keep their backend state and those before k keep what
\* the operation did to them.
C5_FleetIterator ==
    [][/\ running =>
            /\ cursor' = cursor + 1
            /\ \A x \in DOMAIN containers :
                   \/ containers'[x] = containers[x]
                   \/ (\E t \in 1..Len(spec.Machines) :
                         \E i \in 0..(spec.Machines[t].Count - 1) :
                            /\ Position(spec, t, i) = cursor + 1
                            /\ x = containerName(spec, spec.Machines[t].Spec, i))
            /\ err' /= NoErr => ~running' /\ ret' = err'
            /\ (err' = NoErr /\ cursor' < TotalCount(spec.Machines, 1)) => running'
            /\ (err' = NoErr /\ cursor' = TotalCount(spec.Machines, 1)) =>
                  ~running' /\ ret' = NoErr
       /\ ~running => containers' = containers /\ cursor' = 0]_vars

\* Witness of C5: a Create over three instances failed on the second one: two
\* invocations, the error returned, the first container kept, the third
\* never created.
C5_Witness ==
    /\ op = "Create" /\ ~running
    /\ TotalCount(spec.Machines, 1) = 3 /\ Len(spec.Machines) = 2
    /\ cursor = 2 /\ err /= NoErr /\ ret = err
    /\ LET all == Instances(spec)
       IN  /\ containers[machine(spec, all[1].t, all[1].i).name].st = "started"
           /\ containers[machine(spec, all[3].t, all[3].i).name] = Absent

-----------------------------------------------------------------------------
(* Properties of provisioning under repeated Create (specification         *)
(* SpecCreate).                                                            *)

\* C15: when createMachine, called on an absent instance, returns an error,
\* the steps it issued are run, shell, publicKey, copy up to the one that
\* failed and none after it, the error is that step's, no kill and no rm was
\* issued, forEachMachine returned that error at once, and a container that
\* was launched (the failure came after the run) is still there, started,
\* with the first-boot script run exactly if the failure came after it and
\* without the key.
C15_NoCleanupOnFailure ==
    [][(running /\ op = "Create" /\ containers[Current.m.name].st = "absent"
          /\ err' /= NoErr) =>
         LET n == Current.m.name
         IN  /\ \/ (calls' = <<"run">> /\ err' = BackendErr("run", n))
                 \/ (calls' = <<"run", "shell">> /\ err' = BackendErr("shell", n))
                 \/ (calls' = <<"run", "shell", "publicKey">>
                        /\ err' = <<"read public key failed">>)
                 \/ (calls' = <<"run", "shell", "publicKey", "copy">>
                        /\ err' = BackendErr("copy", n))
             /\ Occurrences(calls', "kill") = 0
             /\ Occurrences(calls', "rm") = 0
             /\ Len(calls') > 1 =>
                   containers'[n] = [st |-> "started", inited |-> Len(calls') > 2,
                                     keyed |-> FALSE]
             /\ ~running' /\ ret' = err']_vars

\* Witness of C15: a Create failed at the key push: all four steps were issued
\* and the container is left started, initialised and without the key.
C15_Witness ==
    /\ op = "Create" /\ ~running /\ cursor > 0
    /\ calls = <<"run", "shell", "publicKey", "copy">>
    /\ err = BackendErr("copy", Visited.name) /\ ret = err
    /\ containers[Visited.name] = [st |-> "started", inited |-> TRUE, keyed |-> FALSE]

\* A container with the first-boot script run and the key installed.
Provisioned == [st |-> "started", inited |-> TRUE, keyed |-> TRUE]

\* Whether the last Create has returned without an error.
CreateSucceeded == op = "Create" /\ ~running /\ ret = NoErr

\* C19 as stated: whenever a Create has returned without an error, after any
\* number of Create calls and provisioning failures before it, every declared
\* instance is created-started with the first-boot script run and the key
\* installed.
C19_RerunCompletes ==
    CreateSucceeded => \A n \in Names(spec) : containers[n] = Provisioned

\* C19 amended: under repeated Create a container the backend has is never
\* touched again, whatever an earlier failure left of it: the call on it
\* issues nothing and returns no error. A call on an absent instance that
\* returns no error leaves it provisioned. So when a Create has returned
\* without an error the backend has a container for every declared instance,
\* each one either provisioned or exactly as the failed call that launched it
\* left it.
C19_RerunSkipsExisting ==
    /\ [][(running /\ op = "Create") =>
            LET n == Current.m.name
            IN  /\ IsRunning(containers, n) =>
                      (containers' = containers /\ calls' = <<>> /\ err' = NoErr)
                /\ (~IsRunning(containers, n) /\ err' = NoErr) =>
                      containers' = [containers EXCEPT ![n] = Provisioned]]_vars
    /\ [][\A n \in Names(spec) :
              IsRunning(containers, n) => containers'[n] = containers[n]]_vars
    /\ [](CreateSucceeded =>
              \A n \in Names(spec) :
                  \/ containers[n] = Provisioned
                  \/ containers[n] = [st |-> "stopped", inited |-> FALSE, keyed |-> FALSE]
                  \/ containers[n] = [st |-> "started", inited |-> FALSE, keyed |-> FALSE]
                  \/ containers[n] = [st |-> "started", inited |-> TRUE, keyed |-> FALSE])

\* Witness of C19: a Create over two or more instances has returned without an
\* error, its last call found a container and issued nothing, and one of the
\* containers is still without the key an earlier failed Create did not
\* install.
C19_Witness ==
    /\ CreateSucceeded
    /\ cursor = Len(Instances(spec)) /\ cursor > 1
    /\ calls = <<>>
    /\ \E n \in Names(spec) : containers[n].st = "started" /\ ~containers[n].keyed
    /\ \E n \in Names(spec) : containers[n] = Provisioned

-----------------------------------------------------------------------------
(* Properties of machine identity (specification SpecNames).               *)

\* The declared (template, index) pairs.
Declared(c) == {Instances(c)[k] : k \in 1..Len(Instances(c))}

\* C8: after a lookup, if the hostname is the one derived for a declared
\* (t, i), the lookup returned no error and that very instance: template t,
\* index i, its container name and its hostname; if no declared pair derives
\* the hostname, the lookup returned the invalid-hostname error.
C8_ResolveRoundTrip ==
    machineRes /= NoLookup =>
        /\ \A d \in Declared(spec) :
               hostnameArg = machine(spec, d.t, d.i).hostname =>
                   /\ machineRes.err = NoErr
                   /\ machineRes.t = d.t
                   /\ machineRes.i = d.i
                   /\ machineRes.machine = machine(spec, d.t, d.i)
        /\ (\A d \in Declared(spec) : hostnameArg /= machine(spec, d.t, d.i).hostname) =>
               machineRes.err = hostnameArg \o <<": invalid machine hostname">>

\* C9: the instance Cluster.machine built shares its container name and its
\* hostname with no other declared (template, index) of the cluster.
C9_NamesInjective ==
    made /= NoLookup =>
        \A d \in Declared(spec) :
            (d.t /= made.t \/ d.i /= made.i) =>
                /\ machine(spec, d.t, d.i).name /= made.machine.name
                /\ machine(spec, d.t, d.i).hostname /= made.machine.hostname

\* What does hold of a lookup: it returns the first declared instance, in
\* declaration order, whose hostname is the one asked for, and that instance
\* has the hostname asked for and the container name derived from it; a
\* hostname no declared instance has yields the invalid-hostname error.
ResolveFirstMatch ==
    machineRes /= NoLookup =>
        IF \E d \in Declared(spec) : hostnameArg = machine(spec, d.t, d.i).hostname
        THEN /\ machineRes.err = NoErr
             /\ machineRes.machine.hostname = hostnameArg
             /\ machineRes.machine.name = spec.Cluster.Name \o <<"-">> \o hostnameArg
             /\ machineRes.i < spec.Machines[machineRes.t].Count
             /\ \A d \in Declared(spec) :
                    hostnameArg = machine(spec, d.t, d.i).hostname =>
                        Position(spec, machineRes.t, machineRes.i) <= Position(spec, d.t, d.i)
        ELSE machineRes.err = hostnameArg \o <<": invalid machine hostname">>

-----------------------------------------------------------------------------
(* Properties of the remote session (specification SpecSSH).               *)

\* Whether the last ssh process wrote the refusal signature: one of its
\* writes begins with it, which is what the signature filter records.
SignatureObserved == \E k \in 1..Len(writes) : BeginsWithSignature(writes[k])

\* C6: a call of Cluster.SSH never starts more than 25 ssh processes: inside
\* the loop fewer than 25 have run and retries, which every retry counts down,
\* is positive and 25 less the number run; and when every process of a
\* finished call failed after writing the refusal signature, exactly 25 ran
\* and the call returned the error of the 25th.
C6_RetryBound ==
    /\ attempts <= 25
    /\ sshpc = "loop" => attempts < 25 /\ retries > 0 /\ retries = 25 - attempts
    /\ (sshpc = "done" /\ attempts > 0 /\ transients = attempts) =>
          attempts = 25 /\ sshRet = ExitErr(25) /\ sshRet = exit

\* Witness of C6: a call ended after 25 transient failures with the last error.
C6_Witness ==
    /\ sshpc = "done" /\ attempts = 25 /\ transients = 25
    /\ sshRet = ExitErr(25)

\* C7: after every ssh process of a call, ssh asked for a retry exactly when
\* that process exited with an error and itself wrote the refusal signature,
\* and handed back that process's exit status; the loop goes on only after a
\* retryable attempt, so all attempts before the last were transient; and at
\* the first attempt that is not retryable (a success, signature or not, or a
\* failure without it) the call ends, after exactly that many attempts, and
\* returns that attempt's exit status.
C7_RetryableIff ==
    attempts > 0 =>
        /\ retry <=> (exit /= NoErr /\ SignatureObserved)
        /\ sshErr = exit
        /\ transients >= attempts - 1
        /\ sshpc = "loop" => retry /\ transients = attempts
        /\ ~retry => /\ sshpc = "done"
                     /\ sshRet = exit
                     /\ transients = attempts - 1
                     /\ exit \in {NoErr, ExitErr(attempts)}

\* Witness of C7: two transient failures, then a third process that wrote the
\* signature and still succeeded: the call returned success after 3 attempts.
C7_Witness ==
    /\ sshpc = "done" /\ attempts = 3 /\ transients = 2
    /\ SignatureObserved /\ exit = NoErr /\ sshRet = NoErr /\ ~retry

\* The writes, from the k-th on, that match neither regular expression.
RECURSIVE Unmatched(_, _)
Unmatched(ws, k) ==
    IF k > Len(ws) THEN <<>>
    ELSE (IF MatchKnownHosts(ws[k]) \/ MatchConnectRefused(ws[k]) THEN <<>> ELSE <<ws[k]>>)
         \o Unmatched(ws, k + 1)

\* C14 (specification SpecFilter): what an ssh attempt wrote through to
\* os.Stderr is exactly its writes that match neither the known-hosts warning
\* nor the refusal signature, unchanged and in their order, so no matching
\* write reaches the user; each filter has matched exactly when some write
\* matched its expression; and ssh asks for a retry exactly when the process
\* failed and the signature filter matched, whatever the known-hosts filter
\* saw.
C14_FiltersSuppress ==
    attempts > 0 =>
        /\ stderr = Unmatched(writes, 1)
        /\ \A k \in 1..Len(stderr) :
               ~MatchKnownHosts(stderr[k]) /\ ~MatchConnectRefused(stderr[k])
        /\ filters.errFilter.matched <=> \E k \in 1..Len(writes) : MatchKnownHosts(writes[k])
        /\ filters.refusedFilter.matched <=>
               \E k \in 1..Len(writes) : MatchConnectRefused(writes[k])
        /\ retry <=> (exit /= NoErr /\ filters.refusedFilter.matched)

\* Witness of C14: a failed process wrote the known-hosts warning and then a
\* permission error: only the second reached the user, the known-hosts filter
\* matched and no retry is asked for.
C14_Witness ==
    /\ attempts = 1 /\ exit /= NoErr
    /\ Len(writes) = 2
    /\ MatchKnownHosts(writes[1])
    /\ writes[2] = <<"Permission denied (publickey).", "<LF>">>
    /\ stderr = <<writes[2]>>
    /\ filters.errFilter.matched /\ ~filters.refusedFilter.matched
    /\ ~retry

\* The bytes of the writes ws[k..], one after the other.
RECURSIVE Stream(_, _)
Stream(ws, k) == IF k > Len(ws) THEN <<>> ELSE ws[k] \o Stream(ws, k + 1)

\* Whether a line of the stream begins with the refusal signature, whatever
\* the writes that carried it.
SignatureLineIn(str) ==
    \E j \in 1..(Len(str) - 1) :
        /\ str[j] = "ssh_exchange_"
        /\ str[j + 1] = "identification: "
        /\ j > 1 => HasLineFeed(str[j - 1])

\* C20 as stated (specification SpecFilter): when a line of what a failed ssh
\* process wrote to its standard error begins with the refusal signature,
\* wherever the line is in the stream and however the stream was cut into
\* writes, ssh asks for a retry and no line of what reached os.Stderr begins
\* with the signature.
C20_SignatureAnywhere ==
    (attempts > 0 /\ exit /= NoErr /\ SignatureLineIn(Stream(writes, 1))) =>
        /\ retry
        /\ ~SignatureLineIn(Stream(stderr, 1))

\* C11: a call of Cluster.SSH whose node name is the hostname of no declared
\* (template, index) has returned the invalid-hostname error, and a call whose
\* node name resolves to an instance whose template declares no mapping of
\* container port 22 has returned the unknown-port error; in both cases the
\* call is over, no ssh process was started and nothing was written.
C11_FailsBeforeAttempt ==
    sshpc /= "idle" =>
        LET resolved  == {d \in Declared(spec) :
                             machine(spec, d.t, d.i).hostname = hostnameArg}
            mapped(t) == \E k \in 1..Len(spec.Machines[t].Spec.PortMappings) :
                             spec.Machines[t].Spec.PortMappings[k].ContainerPort = 22
            unstarted == sshpc = "done" /\ attempts = 0 /\ writes = <<>> /\ stderr = <<>>
        IN  /\ resolved = {} =>
                  /\ unstarted
                  /\ sshRet = hostnameArg \o <<": invalid machine hostname">>
            /\ (resolved /= {} /\ \A d \in resolved : ~mapped(d.t)) =>
                  /\ unstarted
                  /\ sshRet = <<"unknown containerPort ", "2", "2">>

\* Witness of C11: a call for the declared node n0, whose template maps port
\* 80 only, returned the unknown-port error without starting ssh.
C11_Witness ==
    /\ sshpc = "done" /\ attempts = 0
    /\ hostnameArg = <<"n", "0">>
    /\ Len(spec.Machines[1].Spec.PortMappings) = 1
    /\ sshRet = <<"unknown containerPort ", "2", "2">>

-----------------------------------------------------------------------------
(* Properties of the run arguments (specification SpecArgs).               *)

\* The values that follow the flag in a list of arguments, in order.
RECURSIVE ValuesOf(_, _, _)
ValuesOf(args, flag, k) ==
    IF k >= Len(args) THEN <<>>
    ELSE IF args[k] = flag THEN <<args[k + 1]>> \o ValuesOf(args, flag, k + 2)
    ELSE ValuesOf(args, flag, k + 1)

\* The fields of a string between its colons.
RECURSIVE Fields(_, _, _)
Fields(str, k, field) ==
    IF k > Len(str) THEN <<field>>
    ELSE IF str[k] = ":" THEN <<field>> \o Fields(str, k + 1, <<>>)
    ELSE Fields(str, k + 1, Append(field, str[k]))

\* C10: the run arguments of replica i hold one -p value per declared port
\* mapping, in order; the value of a mapping that declares host port P /= 0
\* has, right before its last field, a field that is the number P + i; the
\* value of a mapping that declares no host port has no numeric field before
\* its last one; in both cases the last field begins with the container port,
\* whatever the address and the protocol are.
C10_EffectiveHostPort ==
    runInst.t /= 0 =>
        LET mappings == spec.Machines[runInst.t].Spec.PortMappings
            values   == ValuesOf(runArgs, <<"-p">>, 1)
        IN  /\ Len(values) = Len(mappings)
            /\ \A k \in 1..Len(mappings) :
                  LET fields == Fields(values[k], 1, <<>>)
                      n      == Len(fields)
                      cport  == Dec(mappings[k].ContainerPort)
                  IN  /\ SubSeq(fields[n], 1, Len(cport)) = cport
                      /\ IF mappings[k].HostPort /= 0
                         THEN /\ n >= 2
                              /\ IsNumber(fields[n - 1])
                              /\ Number(fields[n - 1], Len(fields[n - 1]))
                                    = mappings[k].HostPort + runInst.i
                         ELSE \A j \in 1..(n - 1) : ~IsNumber(fields[j])

\* Witness of C10: the arguments of replica 1 of a template whose first
\* mapping declares host port 65535 and whose second declares an address and
\* no host port: the first value publishes host port 65536.
C10_Witness ==
    /\ runInst.t /= 0 /\ runInst.i = 1
    /\ LET mappings == spec.Machines[runInst.t].Spec.PortMappings
           values   == ValuesOf(runArgs, <<"-p">>, 1)
       IN  /\ Len(mappings) = 2 /\ Len(values) = 2
           /\ mappings[1].HostPort = 65535
           /\ mappings[2].HostPort = 0 /\ mappings[2].Address /= <<>>
           /\ values[1] = <<"6", "5", "5", "3", "6", ":", "2", "2">>
           /\ values[2] = <<"1.2.3.4", ":", "2", "2">>

\* C13: the run arguments hold one --mount value per declared volume, in
\* declaration order, and each value reads type=<t>, then ,src=<s> only when
\* the source is not empty, then ,dst=<d>, then ,readonly only when the volume
\* is read-only; so the bind volume of /a on /b, read-only, reads
\* type=bind,src=/a,dst=/b,readonly.
C13_MountFormat ==
    runInst.t /= 0 =>
        LET volumes == spec.Machines[runInst.t].Spec.Volumes
            values  == ValuesOf(runArgs, <<"--mount">>, 1)
        IN  /\ Len(values) = Len(volumes)
            /\ \A k \in 1..Len(volumes) :
                  /\ values[k] = <<"type=">> \o volumes[k].Type
                                  \o (IF volumes[k].Source = <<>> THEN <<>>
                                      ELSE <<",src=">> \o volumes[k].Source)
                                  \o <<",dst=">> \o volumes[k].Destination
                                  \o (IF volumes[k].ReadOnly THEN <<",readonly">> ELSE <<>>)
                  /\ volumes[k] = Volume(<<"bind">>, <<"/a">>, <<"/b">>, TRUE) =>
                        values[k] = <<"type=", "bind", ",src=", "/a", ",dst=", "/b", ",readonly">>

\* Witness of C13: the arguments of a template with two volumes, the bind of
\* /a on /b read-only and then a writable volume without a source.
C13_Witness ==
    /\ runInst.t /= 0
    /\ spec.Machines[runInst.t].Spec.Volumes
          = <<Volume(<<"bind">>, <<"/a">>, <<"/b">>, TRUE),
              Volume(<<"volume">>, <<>>, <<"/b">>, FALSE)>>
    /\ ValuesOf(runArgs, <<"--mount">>, 1)
          = << <<"type=", "bind", ",src=", "/a", ",dst=", "/b", ",readonly">>,
               <<"type=", "volume", ",dst=", "/b">> >>

-----------------------------------------------------------------------------
(* Properties of fleet inspection (specification SpecGather).              *)

\* C12: no call of Show or Inspect, in whatever backend state and whether it
\* succeeds or fails, changes the declared configuration: after it every
\* template has the port mappings, volumes and command (and name and count)
\* it had before, and the run arguments createMachine computes for every
\* declared instance are those of the template as declared.
C12_OverlayNotWrittenBack ==
    /\ [][/\ Len(spec'.Machines) = Len(spec.Machines)
           /\ \A t \in 1..Len(spec.Machines) :
                  /\ spec'.Machines[t].Spec.PortMappings = spec.Machines[t].Spec.PortMappings
                  /\ spec'.Machines[t].Spec.Volumes = spec.Machines[t].Spec.Volumes
                  /\ spec'.Machines[t].Spec.Cmd = spec.Machines[t].Spec.Cmd
                  /\ spec'.Machines[t].Spec.Name = spec.Machines[t].Spec.Name
                  /\ spec'.Machines[t].Count = spec.Machines[t].Count]_vars
    /\ [](\A d \in Declared(spec) :
              LET m == machine(spec, d.t, d.i)
              IN  createMachineRunArgs(spec, spec.Machines[d.t].Spec, m, m.name, d.i)
                     = createMachineRunArgs(spec, GatherSpec(d.t), m, m.name, d.i))

\* Witness of C12: Show returned a machine of the first template overlaid
\* with what the backend reports (two port mappings, an address), and the
\* template still declares its one mapping, its volume and no command.
C12_Witness ==
    /\ gop = "Show" /\ gatherRet = NoErr
    /\ Len(gathered) >= 1
    /\ Len(gathered[1].spec.PortMappings) = 2
    /\ gathered[1].spec.Cmd = <<"/bin/sh", ",", "-c", ",", "sleep 1">>
    /\ gathered[1].ip = <<"172.17.0.2">>
    /\ spec.Machines[1].Spec = GatherSpec(1)

\* Whether the last Show or Inspect got past every inspection.
AllInspected ==
    /\ gop /= "none"
    /\ \A n \in DOMAIN containers : gatherRet /= BackendErr("inspect", n)

\* C16: after a Show or Inspect in which no inspection failed, the record of
\* every declared instance the backend has is the backend's: it has one port
\* mapping per published port of the inspection record, whose container port
\* is that port's number and whose host port is the number of its first
\* binding, and one volume per mount, in order, which is read-only exactly
\* when the mount is not writable.
C16_OverlayFaithful ==
    AllInspected =>
        \A k \in 1..Len(gathered) :
            IsRunning(containers, gathered[k].name) =>
                LET inspect   == inspects[gathered[k].name]
                    published == {key \in DOMAIN inspect.Ports : Len(inspect.Ports[key]) >= 1}
                    mappings  == gathered[k].spec.PortMappings
                    volumes   == gathered[k].spec.Volumes
                IN  /\ Len(mappings) = Cardinality(published)
                    /\ \A key \in published :
                           \E j \in 1..Len(mappings) :
                              /\ mappings[j].ContainerPort = key.Int
                              /\ mappings[j].HostPort
                                    = Number(inspect.Ports[key][1].HostPort,
                                             Len(inspect.Ports[key][1].HostPort))
                    /\ Len(volumes) = Len(inspect.Mounts)
                    /\ \A j \in 1..Len(volumes) :
                           volumes[j].ReadOnly <=> ~inspect.Mounts[j].RW

\* C17: what Show or Inspect gathered is one machine per declared instance, in
\* the order of forEachMachine (templates as declared, indices ascending),
\* whatever the backend has and whether or not an inspection failed; a machine
\* the backend does not have keeps the port mappings, volumes and command its
\* template declares and has no IP address.
C17_OnePerInstanceInOrder ==
    gop /= "none" =>
        /\ Len(gathered) = Len(Instances(spec))
        /\ \A k \in 1..Len(gathered) :
               LET inst == Instances(spec)[k]
                   m    == machine(spec, inst.t, inst.i)
               IN  /\ gathered[k].name = m.name
                   /\ gathered[k].hostname = m.hostname
                   /\ ~IsRunning(containers, m.name) =>
                          /\ gathered[k].spec.PortMappings = spec.Machines[inst.t].Spec.PortMappings
                          /\ gathered[k].spec.Volumes = spec.Machines[inst.t].Spec.Volumes
                          /\ gathered[k].spec.Cmd = spec.Machines[inst.t].Spec.Cmd
                          /\ gathered[k].ip = <<>>

\* Two instances of one template gathered, the first absent and the second
\* overlaid with what the backend reports.
C17_Witness ==
    /\ gop /= "none"
    /\ gatherRet = NoErr
    /\ Len(spec.Machines) = 1
    /\ Len(gathered) = 2
    /\ ~IsRunning(containers, gathered[1].name)
    /\ gathered[1].spec.PortMappings = <<PortMapping(22, 2222, <<>>, <<>>)>>
    /\ IsRunning(containers, gathered[2].name)
    /\ gathered[2].ip /= <<>>

====
